---- MODULE Spec2Model ----
(***************************************************************************)
(* Model of app.py, the allocation dashboard: two spreadsheet tables (the  *)
(* coordinator sheet and the structural totals sheet) and the functions    *)
(* that aggregate them (overall percentage, per GRE, per Polo, per-record  *)
(* status, detail table).                                                  *)
(*                                                                         *)
(* A table is a sequence of rows (records).  A nullable cell is an option: *)
(* NaN == << >> is the missing value, Some(v) == <<v>> holds v.  A text    *)
(* cell that the code inspects character by character (COORDENADOR) holds  *)
(* a sequence of characters; a character is a one-token string, the two    *)
(* accented letters being written "a_til" / "A_TIL" and "c_ced" / "C_CED". *)
(* A float is a record [kind, num, den]: kind "num" is the rational        *)
(* num/den, kind "inf" is +infinity, kind "nan" is NaN.                    *)
(***************************************************************************)
EXTENDS Naturals, Integers, Sequences, FiniteSets, TLC

VARIABLES
    pc,                 \* position in the run
    raw_coord,          \* coordinator sheet as read, below its header row
    df_coord,           \* load_data_coordenadores' table
    df_total,           \* load_data_totais' table
    perc_conclusao,     \* calcular_percentual_conclusao_diretores' result
    resumo_gre,         \* agg_por_gre's table
    tabela_gre,         \* the GRE table as displayed (percentage rounded)
    gre_escolhida,      \* selected GRE
    resumo_polo,        \* agg_por_polo's table
    polo_escolhido,     \* selected Polo
    resumo_status,      \* resumo_status_polo's summary
    registros_do_polo,  \* resumo_status_polo's enriched records
    tabela_final        \* detalhe_escolas' table

vars == <<pc, raw_coord, df_coord, df_total, perc_conclusao, resumo_gre,
          tabela_gre, gre_escolhida, resumo_polo, polo_escolhido,
          resumo_status, registros_do_polo, tabela_final>>

(***************************************************************************)
(* Bounds of the input tables.                                             *)
(***************************************************************************)
MaxCoord == 2
MaxTotal == 3
MaxCoordPolo == 1
MaxTotalPolo == 3
MaxTotalRegistros == 2

(***************************************************************************)
(* Cells.                                                                  *)
(***************************************************************************)
NaN == << >>
Some(v) == <<v>>
IsNa(c) == c = NaN
Fillna(c, v) == IF IsNa(c) THEN Some(v) ELSE c

\* Key order of the grouped columns (groupby sorts its keys).
GRE_ORDER == <<"R1", "R2">>
POLO_ORDER == <<"P1", "P2">>
ESCOLA_ORDER == <<Some("A"), Some("B"), Some("C")>>
STATUS_ORDER == <<"Com Coordenador", "Sem Coordenador">>

Range(s) == {s[i] : i \in 1..Len(s)}
BoundedSeq(S, n) == UNION {[1..k -> S] : k \in 0..n}

(***************************************************************************)
(* Text: str.strip, str.lower, eq.                                         *)
(***************************************************************************)
Whitespace == {" ", "\t"}

UpperToLower ==
    [c \in {"S", "E", "M", "I", "N", "F", "O", "R", "A", "C_CED", "A_TIL", "J"} |->
        CASE c = "S" -> "s" [] c = "E" -> "e" [] c = "M" -> "m"
          [] c = "I" -> "i" [] c = "N" -> "n" [] c = "F" -> "f"
          [] c = "O" -> "o" [] c = "R" -> "r" [] c = "A" -> "a"
          [] c = "C_CED" -> "c_ced" [] c = "A_TIL" -> "a_til"
          [] c = "J" -> "j"]

LowerChar(c) == IF c \in DOMAIN UpperToLower THEN UpperToLower[c] ELSE c
StrLower(s) == [i \in 1..Len(s) |-> LowerChar(s[i])]

RECURSIVE LStrip(_)
LStrip(s) == IF s # << >> /\ Head(s) \in Whitespace THEN LStrip(Tail(s)) ELSE s
RECURSIVE RStrip(_)
RStrip(s) ==
    IF s # << >> /\ s[Len(s)] \in Whitespace
    THEN RStrip(SubSeq(s, 1, Len(s) - 1)) ELSE s
StrStrip(s) == RStrip(LStrip(s))

SEM_INFORMACAO_LOWER ==
    <<"s", "e", "m", " ", "i", "n", "f", "o", "r", "m", "a", "c_ced", "a_til", "o">>
SEM_INFORMACAO ==
    <<"S", "e", "m", " ", "i", "n", "f", "o", "r", "m", "a", "c_ced", "a_til", "o">>
JOAO == <<"J", "o", "a_til", "o">>

StatusMap(tem) == IF tem THEN "Com Coordenador" ELSE "Sem Coordenador"

(***************************************************************************)
(* load_data_coordenadores: the two derived columns.                       *)
(***************************************************************************)
TemCoordenador(cell) ==
    ~(StrLower(StrStrip(Fillna(cell, << >>)[1])) = SEM_INFORMACAO_LOWER)

LoadRow(r) ==
    [GRE |-> r.GRE, INEP |-> r.INEP, ESCOLA |-> r.ESCOLA, POLO |-> r.POLO,
     COORDENADOR |-> r.COORDENADOR,
     TEM_COORDENADOR |-> TemCoordenador(r.COORDENADOR),
     STATUS_COORDENADOR |-> StatusMap(TemCoordenador(r.COORDENADOR))]

load_data_coordenadores(raw) == [i \in 1..Len(raw) |-> LoadRow(raw[i])]

(***************************************************************************)
(* Floats.  Python's int / int raises on a zero divisor; a pandas column   *)
(* division yields inf or NaN instead.                                     *)
(***************************************************************************)
Frac(n, d) == [kind |-> "num", num |-> n, den |-> d]
Zero == Frac(0, 1)
Inf == [kind |-> "inf", num |-> 1, den |-> 0]
NaNFloat == [kind |-> "nan", num |-> 0, den |-> 0]
ZeroDivisionError == [kind |-> "ZeroDivisionError", num |-> 0, den |-> 0]

PyDiv(n, d) == IF d = 0 THEN ZeroDivisionError ELSE Frac(n, d)
NpDiv(n, d) == IF d # 0 THEN Frac(n, d) ELSE IF n = 0 THEN NaNFloat ELSE Inf
Times100(f) == IF f.kind = "num" THEN Frac(f.num * 100, f.den) ELSE f
FloatFillna0(f) == IF f.kind = "nan" THEN Zero ELSE f
FloatGE(a, b) ==
    \/ a.kind = "inf"
    \/ a.kind = "num" /\ b.kind = "num" /\ a.num * b.den >= b.num * a.den

(***************************************************************************)
(* Series and frame helpers: nunique, groupby, merge(how="left").          *)
(***************************************************************************)
\* Mutant: count() for nunique(): the values that are not missing, repeated
\* ones included.
NuniqueCount(df, col) == Len(SelectSeq(df, LAMBDA r : ~IsNa(r[col])))

Nunique(df, col) == Cardinality({r[col] : r \in Range(df)} \ {NaN})

ComCoordenador(df) == SelectSeq(df, LAMBDA r : r.TEM_COORDENADOR)

\* groupby(by) drops no key here (GRE and POLO cells are never missing) and
\* lists the keys in sorted order.
GroupKeys(df, by, order) == SelectSeq(order, LAMBDA k : \E r \in Range(df) : r[by] = k)

GroupNunique(df, by, order, name) ==
    LET keys == GroupKeys(df, by, order)
    IN  [i \in 1..Len(keys) |->
            (by :> keys[i]) @@
            (name :> Nunique(SelectSeq(df, LAMBDA r : r[by] = keys[i]), "ESCOLA"))]

\* The right table's columns `cols` become nullable in the merged table:
\* those in `wrap` hold plain values on the right, the others are options.
RightCells(m, cols, wrap) ==
    [c \in cols |-> IF c \in wrap THEN Some(m[c]) ELSE m[c]]

RECURSIVE MergeLeft(_, _, _, _, _)
MergeLeft(left, right, on, cols, wrap) ==
    IF left = << >> THEN << >>
    ELSE LET l == Head(left)
             m == SelectSeq(right, LAMBDA r : r[on] = l[on])
             rows == IF m = << >>
                     THEN << l @@ [c \in cols |-> NaN] >>
                     ELSE [i \in 1..Len(m) |-> l @@ RightCells(m[i], cols, wrap)]
         IN  rows \o MergeLeft(Tail(left), right, on, cols, wrap)

\* sort_values(by="perc_com_coord"): an insertion sort on the percentage,
\* missing values last.  The order it leaves rows of equal percentage in
\* depends on the order it meets them in, which the sort algorithm decides:
\* every arrangement of the rows is a possible order of arrival.
Arrangements(rows) ==
    {[i \in 1..Len(rows) |-> rows[f[i]]] :
        f \in {g \in [1..Len(rows) -> 1..Len(rows)] :
                 \A i, j \in 1..Len(rows) : i # j => g[i] # g[j]}}

GoesBefore(a, b, ascending) ==
    /\ a.kind # "nan"
    /\ \/ b.kind = "nan"
       \/ IF ascending THEN ~FloatGE(a, b) ELSE ~FloatGE(b, a)

RECURSIVE Insert(_, _, _)
Insert(row, sorted, ascending) ==
    IF sorted = << >> THEN <<row>>
    ELSE IF GoesBefore(row.perc_com_coord, Head(sorted).perc_com_coord, ascending)
    THEN <<row>> \o sorted
    ELSE <<Head(sorted)>> \o Insert(row, Tail(sorted), ascending)

RECURSIVE InsertionSort(_, _)
InsertionSort(rows, ascending) ==
    IF rows = << >> THEN << >>
    ELSE Insert(Head(rows), InsertionSort(Tail(rows), ascending), ascending)

\* Mutant: the default, ascending order.
SortValuesAsc(rows) == {InsertionSort(a, TRUE) : a \in Arrangements(rows)}

SortValuesDesc(rows) == {InsertionSort(a, FALSE) : a \in Arrangements(rows)}

(***************************************************************************)
(* calcular_percentual_conclusao_diretores                                 *)
(***************************************************************************)
\* Mutant: no guard on the divisor.
calcular_sem_guarda(coord, total) ==
    Times100(PyDiv(Nunique(ComCoordenador(coord), "ESCOLA"), Nunique(total, "ESCOLA")))

calcular_percentual_conclusao_diretores(coord, total) ==
    LET total_escolas == Nunique(total, "ESCOLA")
        escolas_com_coord == Nunique(ComCoordenador(coord), "ESCOLA")
    IN  IF total_escolas = 0 THEN Zero
        ELSE Times100(PyDiv(escolas_com_coord, total_escolas))

(***************************************************************************)
(* agg_por_gre and agg_por_polo, up to the final sort.                     *)
(***************************************************************************)
\* Mutant: how="inner".
MergeResumoInner(totais, com_coord, on) ==
    SelectSeq(MergeLeft(totais, com_coord, on, {"escolas_com_coord"}, {"escolas_com_coord"}),
              LAMBDA r : ~IsNa(r.escolas_com_coord))

MergeResumo(totais, com_coord, on) ==
    MergeLeft(totais, com_coord, on, {"escolas_com_coord"}, {"escolas_com_coord"})

PercComCoord(merged, on) ==
    [i \in 1..Len(merged) |->
        LET n == Fillna(merged[i].escolas_com_coord, 0)[1]
        IN  (on :> merged[i][on]) @@
            [total_escolas |-> merged[i].total_escolas,
             escolas_com_coord |-> n,
             perc_com_coord |->
                 FloatFillna0(Times100(NpDiv(n, merged[i].total_escolas)))]]

ResumoGre(coord, total) ==
    LET gre_totais == GroupNunique(total, "GRE", GRE_ORDER, "total_escolas")
        gre_com_coord ==
            GroupNunique(ComCoordenador(coord), "GRE", GRE_ORDER, "escolas_com_coord")
    IN  PercComCoord(MergeResumo(gre_totais, gre_com_coord, "GRE"), "GRE")

agg_por_gre(coord, total) == SortValuesDesc(ResumoGre(coord, total))

ResumoPolo(coord, total, gre) ==
    LET total_polos ==
            GroupNunique(SelectSeq(total, LAMBDA r : r.GRE = gre),
                         "POLO", POLO_ORDER, "total_escolas")
        polos_com_coord ==
            GroupNunique(SelectSeq(coord, LAMBDA r : r.GRE = gre /\ r.TEM_COORDENADOR),
                         "POLO", POLO_ORDER, "escolas_com_coord")
    IN  PercComCoord(MergeResumo(total_polos, polos_com_coord, "POLO"), "POLO")

agg_por_polo(coord, total, gre) == SortValuesDesc(ResumoPolo(coord, total, gre))

\* round(1) of the displayed percentage, in tenths (ties to even).
Round1(f) ==
    IF f.kind # "num" THEN [kind |-> f.kind, tenths |-> 0]
    ELSE LET q == (f.num * 10) \div f.den
             r == (f.num * 10) % f.den
         IN  [kind |-> "num",
              tenths |-> IF 2 * r > f.den THEN q + 1
                         ELSE IF 2 * r = f.den THEN q + (q % 2)
                         ELSE q]

TabelaGre(resumo) ==
    [i \in 1..Len(resumo) |->
        [GRE |-> resumo[i].GRE,
         total_escolas |-> resumo[i].total_escolas,
         escolas_com_coord |-> resumo[i].escolas_com_coord,
         perc_com_coord |-> Round1(resumo[i].perc_com_coord)]]

(***************************************************************************)
(* resumo_status_polo                                                      *)
(***************************************************************************)
\* Mutant: the GRE condition of the filter left out.
RegistrosDoPoloSemGre(total, gre, polo) == SelectSeq(total, LAMBDA r : r.POLO = polo)

RegistrosDoPolo(total, gre, polo) ==
    SelectSeq(total, LAMBDA r : r.GRE = gre /\ r.POLO = polo)

\* groupby("ESCOLA") drops the rows whose ESCOLA is missing.
EscolaKeys(coord) == GroupKeys(coord, "ESCOLA", ESCOLA_ORDER)

BoolMax(rows, col) == \E r \in Range(rows) : r[col]

MapaCoord(coord) ==
    [e \in Range(EscolaKeys(coord)) |->
        BoolMax(SelectSeq(coord, LAMBDA r : r.ESCOLA = e), "TEM_COORDENADOR")]

MapSeries(cell, mapa) == IF cell \in DOMAIN mapa THEN Some(mapa[cell]) ELSE NaN

Enriquecidos(coord, registros) ==
    [i \in 1..Len(registros) |->
        LET tem == Fillna(MapSeries(registros[i].ESCOLA, MapaCoord(coord)), FALSE)[1]
        IN  registros[i] @@
            [TEM_COORDENADOR |-> tem, STATUS_COORDENADOR |-> StatusMap(tem)]]

GroupSize(df, by, order, name) ==
    LET keys == GroupKeys(df, by, order)
    IN  [i \in 1..Len(keys) |->
            (by :> keys[i]) @@
            (name :> Len(SelectSeq(df, LAMBDA r : r[by] = keys[i])))]

RECURSIVE SumCol(_, _)
SumCol(df, col) == IF df = << >> THEN 0 ELSE Head(df)[col] + SumCol(Tail(df), col)

resumo_status_polo(coord, total, gre, polo) ==
    LET total_registros_polo == Enriquecidos(coord, RegistrosDoPolo(total, gre, polo))
        resumo == GroupSize(total_registros_polo, "STATUS_COORDENADOR",
                            STATUS_ORDER, "qtd_registros")
        soma == SumCol(resumo, "qtd_registros")
    IN  << [i \in 1..Len(resumo) |->
               resumo[i] @@
               [percentual |->
                   FloatFillna0(Times100(NpDiv(resumo[i].qtd_registros, soma)))]],
           total_registros_polo >>

(***************************************************************************)
(* detalhe_escolas                                                         *)
(***************************************************************************)
\* groupby "first": the first value of the group that is not missing.
RECURSIVE First(_, _)
First(rows, col) ==
    IF rows = << >> THEN NaN
    ELSE IF ~IsNa(Head(rows)[col]) THEN Head(rows)[col]
    ELSE First(Tail(rows), col)

\* Mutant: no groupby, one auxiliary row per coordinator row.
AuxPorLinha(coord) ==
    LET rows == SelectSeq(coord, LAMBDA r : ~IsNa(r.ESCOLA))
    IN  [i \in 1..Len(rows) |->
            [ESCOLA |-> rows[i].ESCOLA,
             INEP |-> rows[i].INEP,
             COORDENADOR |-> rows[i].COORDENADOR,
             TEM_COORDENADOR |-> rows[i].TEM_COORDENADOR,
             STATUS_COORDENADOR |-> rows[i].STATUS_COORDENADOR]]

Aux(coord) ==
    LET keys == EscolaKeys(coord)
    IN  [i \in 1..Len(keys) |->
            LET g == SelectSeq(coord, LAMBDA r : r.ESCOLA = keys[i])
            IN  [ESCOLA |-> keys[i],
                 INEP |-> First(g, "INEP"),
                 COORDENADOR |-> First(g, "COORDENADOR"),
                 TEM_COORDENADOR |-> BoolMax(g, "TEM_COORDENADOR"),
                 STATUS_COORDENADOR |-> g[1].STATUS_COORDENADOR]]

detalhe_escolas(coord, total, gre, polo) ==
    LET registros ==
            MergeLeft(RegistrosDoPolo(total, gre, polo), Aux(coord), "ESCOLA",
                      {"INEP", "COORDENADOR", "TEM_COORDENADOR", "STATUS_COORDENADOR"},
                      {"TEM_COORDENADOR", "STATUS_COORDENADOR"})
    IN  [i \in 1..Len(registros) |->
            [GRE |-> registros[i].GRE,
             POLO |-> registros[i].POLO,
             ESCOLA |-> registros[i].ESCOLA,
             INEP |-> registros[i].INEP,
             COORDENADOR |-> Fillna(registros[i].COORDENADOR, SEM_INFORMACAO)[1],
             STATUS_COORDENADOR |->
                 Fillna(registros[i].STATUS_COORDENADOR, "Sem Coordenador")[1]]]

(***************************************************************************)
(* Input rows.                                                             *)
(***************************************************************************)
InepOf(e) == IF IsNa(e) THEN NaN ELSE Some(<<"inep", e[1]>>)

RawRow(g, p, e, c) ==
    [GRE |-> g, POLO |-> p, ESCOLA |-> e, INEP |-> InepOf(e), COORDENADOR |-> c]
TotalRow(g, p, e) == [GRE |-> g, POLO |-> p, ESCOLA |-> e]

RawRows(G, P, E, C) == {RawRow(g, p, e, c) : g \in G, p \in P, e \in E, c \in C}
TotalRows(G, P, E) == {TotalRow(g, p, e) : g \in G, p \in P, e \in E}

Blank == [v \in {"pc"} |-> "none"]

Idle ==
    /\ df_coord = << >>
    /\ perc_conclusao = Blank
    /\ resumo_gre = << >>
    /\ tabela_gre = << >>
    /\ gre_escolhida = "none"
    /\ resumo_polo = << >>
    /\ polo_escolhido = "none"
    /\ resumo_status = << >>
    /\ registros_do_polo = << >>
    /\ tabela_final = << >>

(***************************************************************************)
(* main: the coordinator table is loaded.                                  *)
(***************************************************************************)
LoadCoordenadores ==
    /\ pc = "start"
    /\ df_coord' = load_data_coordenadores(raw_coord)
    /\ pc' = "loaded"
    /\ UNCHANGED <<raw_coord, df_total, perc_conclusao, resumo_gre, tabela_gre,
                   gre_escolhida, resumo_polo, polo_escolhido, resumo_status,
                   registros_do_polo, tabela_final>>

(***************************************************************************)
(* main: the sidebar's overall percentage.                                 *)
(***************************************************************************)
CalcularPercentual ==
    /\ pc = "loaded"
    /\ perc_conclusao' = calcular_percentual_conclusao_diretores(df_coord, df_total)
    /\ pc' = "sidebar"
    /\ UNCHANGED <<raw_coord, df_coord, df_total, resumo_gre, tabela_gre,
                   gre_escolhida, resumo_polo, polo_escolhido, resumo_status,
                   registros_do_polo, tabela_final>>

(***************************************************************************)
(* mostrar_relatorio_alocacao_diretores, block 1: the GRE summary and its  *)
(* displayed table.                                                        *)
(***************************************************************************)
AggPorGre ==
    /\ pc = "loaded"
    /\ \E resumo \in agg_por_gre(df_coord, df_total) :
          /\ resumo_gre' = resumo
          /\ tabela_gre' = TabelaGre(resumo)
    /\ pc' = "gre"
    /\ UNCHANGED <<raw_coord, df_coord, df_total, perc_conclusao, gre_escolhida,
                   resumo_polo, polo_escolhido, resumo_status, registros_do_polo,
                   tabela_final>>

(***************************************************************************)
(* Block 2: a GRE is chosen among the summary's rows (None when there are  *)
(* none) and its Polo summary computed.                                    *)
(***************************************************************************)
Options(resumo, col) ==
    IF resumo = << >> THEN {"none"} ELSE {resumo[i][col] : i \in 1..Len(resumo)}

AggPorPolo ==
    /\ pc = "gre"
    /\ \E gre \in Options(resumo_gre, "GRE") :
          /\ gre_escolhida' = gre
          /\ \E resumo \in agg_por_polo(df_coord, df_total, gre) : resumo_polo' = resumo
    /\ pc' = "polo"
    /\ UNCHANGED <<raw_coord, df_coord, df_total, perc_conclusao, resumo_gre,
                   tabela_gre, polo_escolhido, resumo_status, registros_do_polo,
                   tabela_final>>

(***************************************************************************)
(* Block 3: the record summary and the detail table of a GRE and a Polo.   *)
(***************************************************************************)
ResumoStatusPolo ==
    /\ pc = "loaded"
    /\ \E gre \in Range(GRE_ORDER), polo \in Range(POLO_ORDER) :
          /\ gre_escolhida' = gre
          /\ polo_escolhido' = polo
          /\ resumo_status' = resumo_status_polo(df_coord, df_total, gre, polo)[1]
          /\ registros_do_polo' = resumo_status_polo(df_coord, df_total, gre, polo)[2]
    /\ pc' = "status"
    /\ UNCHANGED <<raw_coord, df_coord, df_total, perc_conclusao, resumo_gre,
                   tabela_gre, resumo_polo, tabela_final>>

DetalheEscolas ==
    /\ pc = "status"
    /\ tabela_final' = detalhe_escolas(df_coord, df_total, gre_escolhida, polo_escolhido)
    /\ pc' = "detalhe"
    /\ UNCHANGED <<raw_coord, df_coord, df_total, perc_conclusao, resumo_gre,
                   tabela_gre, gre_escolhida, resumo_polo, polo_escolhido,
                   resumo_status, registros_do_polo>>

(***************************************************************************)
(* SpecLoad: the loader over sheets whose COORDENADOR cells are missing,   *)
(* empty, blank, the sentinel in several spellings, or a name.             *)
(***************************************************************************)
SEM_INFORMACAO_UPPER_PADDED ==
    <<" ", "S", "E", "M", " ", "I", "N", "F", "O", "R", "M", "A", "C_CED", "A_TIL", "O", "\t">>

CellsLoad ==
    {NaN, Some(<< >>), Some(<<" ", " ">>), Some(SEM_INFORMACAO),
     Some(SEM_INFORMACAO_UPPER_PADDED), Some(SubSeq(SEM_INFORMACAO, 1, 8)),
     Some(JOAO)}

InitLoad ==
    /\ pc = "start"
    /\ raw_coord \in BoundedSeq(RawRows({"R1"}, {"P1"}, {Some("A"), Some("B")}, CellsLoad),
                                MaxCoord)
    /\ df_total = << >>
    /\ Idle

NextLoad == LoadCoordenadores

SpecLoad == InitLoad /\ [][NextLoad]_vars

(***************************************************************************)
(* The report specifications start where main has loaded both tables.      *)
(***************************************************************************)
Loaded(raws, totals) ==
    /\ pc = "loaded"
    /\ raw_coord \in raws
    /\ df_coord = load_data_coordenadores(raw_coord)
    /\ df_total \in totals
    /\ perc_conclusao = Blank
    /\ resumo_gre = << >>
    /\ tabela_gre = << >>
    /\ gre_escolhida = "none"
    /\ resumo_polo = << >>
    /\ polo_escolhido = "none"
    /\ resumo_status = << >>
    /\ registros_do_polo = << >>
    /\ tabela_final = << >>

CellsCoord == {Some(JOAO), Some(SEM_INFORMACAO)}
DuasEscolas == {Some("A"), Some("B")}
EscolasOuNaN == Range(ESCOLA_ORDER) \cup {NaN}

(***************************************************************************)
(* SpecGeral: the overall percentage.  Only ESCOLA and COORDENADOR are     *)
(* read, so the other columns are held fixed.                              *)
(***************************************************************************)
InitGeral ==
    Loaded(BoundedSeq(RawRows({"R1"}, {"P1"}, EscolasOuNaN, CellsCoord), MaxCoord),
           BoundedSeq(TotalRows({"R1"}, {"P1"}, EscolasOuNaN), MaxTotal))

NextGeral == CalcularPercentual

SpecGeral == InitGeral /\ [][NextGeral]_vars

(***************************************************************************)
(* SpecGre: the GRE summary.  GRE, ESCOLA and COORDENADOR are read.        *)
(***************************************************************************)
InitGre ==
    Loaded(BoundedSeq(RawRows(Range(GRE_ORDER), {"P1"}, DuasEscolas, CellsCoord), MaxCoord),
           BoundedSeq(TotalRows(Range(GRE_ORDER), {"P1"}, EscolasOuNaN), MaxTotal))

NextGre == AggPorGre

SpecGre == InitGre /\ [][NextGre]_vars

(***************************************************************************)
(* SpecPolo: the GRE summary, then the Polo summary of a chosen GRE.       *)
(***************************************************************************)
InitPolo ==
    Loaded(BoundedSeq(RawRows(Range(GRE_ORDER), Range(POLO_ORDER), DuasEscolas, CellsCoord),
                      MaxCoordPolo),
           BoundedSeq(TotalRows(Range(GRE_ORDER), Range(POLO_ORDER), DuasEscolas),
                      MaxTotalPolo))

NextPolo == AggPorGre \/ AggPorPolo

SpecPolo == InitPolo /\ [][NextPolo]_vars

(***************************************************************************)
(* SpecRegistros: the record summary and the detail table.  The totals'    *)
(* GRE, POLO and ESCOLA and the coordinators' ESCOLA and COORDENADOR are   *)
(* read.                                                                   *)
(***************************************************************************)
InitRegistros ==
    Loaded(BoundedSeq(RawRows({"R1"}, {"P1"}, DuasEscolas \cup {NaN}, CellsCoord), MaxCoord),
           BoundedSeq(TotalRows(Range(GRE_ORDER), Range(POLO_ORDER), DuasEscolas \cup {NaN}),
                      MaxTotalRegistros))

NextRegistros == ResumoStatusPolo \/ DetalheEscolas

SpecRegistros == InitRegistros /\ [][NextRegistros]_vars

(***************************************************************************)
(* Properties.                                                             *)
(***************************************************************************)
Escolas(rows) == {r.ESCOLA : r \in rows} \ {NaN}
Slice == {i \in 1..Len(df_total) :
            df_total[i].GRE = gre_escolhida /\ df_total[i].POLO = polo_escolhido}
Descending(rows) ==
    \A i \in 1..(Len(rows) - 1) :
        LET a == rows[i].perc_com_coord
            b == rows[i + 1].perc_com_coord
        IN  a.kind = "inf" \/ (a.kind = "num" /\ b.kind = "num"
                               /\ a.num * b.den >= b.num * a.den)

\* C1: whenever the totals table has at least one distinct school, the
\* overall percentage p satisfies 0 <= p <= 100.
C1_PercentualEntre0e100 ==
    (pc = "sidebar" /\ Escolas(Range(df_total)) # {}) =>
        /\ perc_conclusao.kind = "num"
        /\ 0 <= perc_conclusao.num
        /\ perc_conclusao.num <= 100 * perc_conclusao.den

\* C2: a loaded row has TEM_COORDENADOR = FALSE and status "Sem Coordenador"
\* when its coordinator cell is missing, empty, or equal to "sem informacao"
\* once trimmed and case-folded; every other row has TEM_COORDENADOR = TRUE
\* and status "Com Coordenador".
C2_VazioContaComoSemInformacao ==
    pc = "loaded" =>
        \A i \in 1..Len(df_coord) :
            LET c == raw_coord[i].COORDENADOR
                sem == \/ c = NaN
                       \/ c[1] = << >>
                       \/ StrLower(StrStrip(c[1])) = SEM_INFORMACAO_LOWER
            IN  /\ df_coord[i].TEM_COORDENADOR = ~sem
                /\ df_coord[i].STATUS_COORDENADOR =
                       (IF sem THEN "Sem Coordenador" ELSE "Com Coordenador")

\* C3: every row of the GRE summary has total_escolas >= escolas_com_coord.
C3_TotalNaoMenorQueComCoord ==
    pc = "gre" =>
        \A i \in 1..Len(resumo_gre) :
            resumo_gre[i].total_escolas >= resumo_gre[i].escolas_com_coord

\* C4: the GRE summary has exactly one row per distinct GRE of the totals
\* table; a GRE with no coordinated school has escolas_com_coord = 0, and a
\* GRE of the coordinator table alone has no row.
C4_UmaLinhaPorGre ==
    pc = "gre" =>
        LET gres == {r.GRE : r \in Range(df_total)}
        IN  /\ Len(resumo_gre) = Cardinality(gres)
            /\ {resumo_gre[i].GRE : i \in 1..Len(resumo_gre)} = gres
            /\ \A i \in 1..Len(resumo_gre) :
                  (~\E r \in Range(df_coord) :
                        r.GRE = resumo_gre[i].GRE /\ r.TEM_COORDENADOR)
                  => resumo_gre[i].escolas_com_coord = 0

C4_Witness ==
    /\ pc = "gre"
    /\ Len(resumo_gre) = 1
    /\ resumo_gre[1].GRE = "R1"
    /\ resumo_gre[1].escolas_com_coord = 0
    /\ \E r \in Range(df_coord) : r.GRE = "R2" /\ r.TEM_COORDENADOR

\* The scenario of the GRE summary: R1 = {A, B, C}, A without and B with a
\* coordinator.
C5_Cenario ==
    /\ Len(df_total) = 3
    /\ Range(df_total) = TotalRows({"R1"}, {"P1"}, Range(ESCOLA_ORDER))
    /\ Len(raw_coord) = 2
    /\ Range(raw_coord) = {RawRow("R1", "P1", Some("A"), Some(SEM_INFORMACAO)),
                           RawRow("R1", "P1", Some("B"), Some(JOAO))}

\* C5: the row of GRE r holds the number of distinct schools of r in the
\* totals table, the number of distinct schools among the coordinator rows
\* of r that have a coordinator, and (where the total is not 0) the
\* percentage coord / total * 100; totals R1 = {A, B, C} with coordinator
\* rows A = "Sem informacao" and B = "Joao" give 3, 1 and a displayed 33.3.
C5_ContagensPorGre ==
    pc = "gre" =>
        /\ \A i \in 1..Len(resumo_gre) :
              LET row == resumo_gre[i]
                  total == Cardinality(Escolas({r \in Range(df_total) : r.GRE = row.GRE}))
                  coord == Cardinality(Escolas({r \in Range(df_coord) :
                                                  r.GRE = row.GRE /\ r.TEM_COORDENADOR}))
              IN  /\ row.total_escolas = total
                  /\ row.escolas_com_coord = coord
                  /\ total > 0 =>
                        /\ row.perc_com_coord.kind = "num"
                        /\ row.perc_com_coord.num * total
                               = coord * 100 * row.perc_com_coord.den
        /\ C5_Cenario =>
              tabela_gre = << [GRE |-> "R1", total_escolas |-> 3, escolas_com_coord |-> 1,
                               perc_com_coord |-> [kind |-> "num", tenths |-> 333]] >>

C5_Witness ==
    /\ pc = "gre"
    /\ C5_Cenario
    /\ resumo_gre[1].perc_com_coord.num * 3 = 100 * resumo_gre[1].perc_com_coord.den

\* C6: the GRE summary and the Polo summary of any chosen GRE are in
\* descending order of percentage: each row's is >= the next row's.
C6_OrdemDecrescente ==
    /\ pc \in {"gre", "polo"} => Descending(resumo_gre)
    /\ pc = "polo" => Descending(resumo_polo)

C6_Witness ==
    /\ pc = "polo"
    /\ Len(resumo_gre) = 2
    /\ resumo_gre[1].GRE = "R2"
    /\ resumo_gre[1].perc_com_coord.num > 0
    /\ resumo_gre[2].perc_com_coord.num = 0
    /\ Len(resumo_polo) = 2
    /\ resumo_polo[1].POLO = "P2"
    /\ resumo_polo[1].perc_com_coord.num > 0
    /\ resumo_polo[2].perc_com_coord.num = 0

\* C7: the qtd_registros of the status groups add up to the number of totals
\* rows of the chosen GRE and Polo; with no such row the summary is empty
\* and no division fails.
C7_SomaDosRegistros ==
    pc \in {"status", "detalhe"} =>
        /\ SumCol(resumo_status, "qtd_registros") = Cardinality(Slice)
        /\ Slice = {} => resumo_status = << >>
        /\ \A i \in 1..Len(resumo_status) : resumo_status[i].percentual.kind = "num"

C7_Witness ==
    /\ pc = "status"
    /\ Cardinality(Slice) = 2
    /\ Len(df_total) = 2
    /\ Len(resumo_status) = 2
    /\ resumo_status[1].qtd_registros = 1
    /\ resumo_status[2].qtd_registros = 1

\* C8: the detail table has exactly the totals rows of the chosen GRE and
\* Polo, one row each and in their order, whatever the coordinator table
\* holds.
C8_UmaLinhaPorRegistro ==
    pc = "detalhe" =>
        /\ Len(tabela_final) = Cardinality(Slice)
        /\ [i \in 1..Len(tabela_final) |->
               TotalRow(tabela_final[i].GRE, tabela_final[i].POLO, tabela_final[i].ESCOLA)]
           = SelectSeq(df_total, LAMBDA r : r.GRE = gre_escolhida /\ r.POLO = polo_escolhido)

C8_Witness ==
    /\ pc = "detalhe"
    /\ Len(tabela_final) = 2
    /\ Len(df_coord) = 2
    /\ df_coord[1].ESCOLA = df_coord[2].ESCOLA
    /\ \A i \in 1..2 : tabela_final[i].ESCOLA = df_coord[1].ESCOLA

\* C9: with no distinct school in the totals table the overall percentage
\* is exactly 0 and no division fails.
C9_ZeroSemEscolas ==
    (pc = "sidebar" /\ Escolas(Range(df_total)) = {}) => perc_conclusao = Zero

C9_Witness ==
    /\ pc = "sidebar"
    /\ df_total # << >>
    /\ Escolas(Range(df_total)) = {}
    /\ \E r \in Range(df_coord) : r.TEM_COORDENADOR /\ r.ESCOLA # NaN
    /\ perc_conclusao = Zero

\* C10: every record has the same status in the record summary's enriched
\* table and in the detail table, so the summary's "Com Coordenador" count
\* is the number of "Com Coordenador" rows of the detail table.
C10_MesmoStatus ==
    pc = "detalhe" =>
        /\ Len(registros_do_polo) = Len(tabela_final)
        /\ \A i \in 1..Len(tabela_final) :
              registros_do_polo[i].STATUS_COORDENADOR = tabela_final[i].STATUS_COORDENADOR
        /\ SumCol(SelectSeq(resumo_status,
                            LAMBDA r : r.STATUS_COORDENADOR = "Com Coordenador"),
                  "qtd_registros")
           = Cardinality({i \in 1..Len(tabela_final) :
                            tabela_final[i].STATUS_COORDENADOR = "Com Coordenador"})

====
